---- MODULE Spec2Model ----
(***************************************************************************)
(* State values of the mediated-transfer core                              *)
(* (raiden/transfer/mediated_transfer/state.py) and the operations that    *)
(* construct, compare and advance them.                                    *)
(*                                                                         *)
(* Python values are records carrying their class in the field "type".     *)
(* A bytes object is [type, val, id]: val is its content, id its object    *)
(* identity; == on bytes compares val, "is" compares id.                   *)
(***************************************************************************)
EXTENDS Integers, Sequences, FiniteSets, TLC

VARIABLES
    description,    \* last TransferDescriptionWithSecretState built, or None
    transfer,       \* last LockedTransfer*State built, or None
    pair,           \* last MediationPairState built on its own, or None
    raised,         \* exception of the last constructor call, "" when none
    block,          \* block number seen by the role machines
    mediator,       \* the node's MediatorTransferState, or None
    target,         \* the node's TargetTransferState, or None
    a, b,           \* two state values under comparison
    cmp,            \* outcome of the last a == b and a != b
    message,        \* message under serialization test
    pc,             \* position in the serialization test
    mapping,        \* message.to_dict()
    decoded         \* from_dict(mapping)

vars == <<description, transfer, pair, raised, block, mediator, target,
          a, b, cmp, message, pc, mapping, decoded>>

ctorVars  == <<description, transfer, pair, raised>>
nodeVars  == <<block, mediator, target>>
eqVars    == <<a, b, cmp>>
codecVars == <<message, pc, mapping, decoded>>

----------------------------------------------------------------------------
(* Bounds of the model *)

MaxAmount == 2          \* lock amounts range over 1..MaxAmount
MaxExpiration == 3      \* lock expirations range over 2..MaxExpiration
MaxBlock == 4           \* block numbers range over 0..MaxBlock

----------------------------------------------------------------------------
(* Python values *)

None == [type |-> "NoneType"]
ValueError == [type |-> "ValueError"]

isinstance(obj, cls) == obj.type = cls

bytes(v, i) == [type |-> "bytes", val |-> v, id |-> i]

\* The module constant: 32 zero bytes, one object.
EMPTY_MERKLE_ROOT == bytes(0, 0)

\* Another object with the same 32 zero bytes, e.g. decoded from the wire.
ZeroRootCopy == bytes(0, 1)

\* A root of a tree that holds a lock.
LockRoot == bytes(7, 2)

Locksroots == {EMPTY_MERKLE_ROOT, ZeroRootCopy, LockRoot}

\* x is y
Is(x, y) == x.id = y.id

\* x == y on bytes
BytesEq(x, y) == x.val = y.val

Secrets == {bytes(1, 11), bytes(2, 12)}

\* keccak256, uninterpreted: the digest of a preimage is a value determined by
\* the preimage and by nothing else, and no two preimages share one.
sha3(data) == [type |-> "bytes32", digest_of |-> data.val]

Addresses == {bytes(21, 21), bytes(22, 22)}

----------------------------------------------------------------------------
(* Channel substates, raiden.transfer.state *)

HashTimeLockState(amount, expiration, secrethash) ==
    [type |-> "HashTimeLockState", amount |-> amount,
     expiration |-> expiration, secrethash |-> secrethash]

BalanceProofUnsignedState(nonce, transferred_amount, locksroot, channel_identifier, message_hash) ==
    [type |-> "BalanceProofUnsignedState", nonce |-> nonce,
     transferred_amount |-> transferred_amount, locksroot |-> locksroot,
     channel_identifier |-> channel_identifier, message_hash |-> message_hash]

BalanceProofSignedState(nonce, transferred_amount, locksroot, channel_identifier, message_hash, signature, sender) ==
    [type |-> "BalanceProofSignedState", nonce |-> nonce,
     transferred_amount |-> transferred_amount, locksroot |-> locksroot,
     channel_identifier |-> channel_identifier, message_hash |-> message_hash,
     signature |-> signature, sender |-> sender]

----------------------------------------------------------------------------
(* Constructors of state.py.  A constructor that raises yields ValueError. *)

InitiatorPaymentState_init(initiator) ==
    [type |-> "InitiatorPaymentState", initiator |-> initiator,
     cancelled_channels |-> << >>]

InitiatorTransferState_init(transfer_description, channel_identifier) ==
    IF ~isinstance(transfer_description, "TransferDescriptionWithSecretState")
    THEN ValueError
    ELSE [type |-> "InitiatorTransferState",
          transfer_description |-> transfer_description,
          channel_identifier |-> channel_identifier,
          transfer |-> None, secretrequest |-> None, revealsecret |-> None]

\* the constructor as it would be with the secret slot given the hash
MediatorTransferState_init_secret_set(secrethash) ==
    [type |-> "MediatorTransferState", secrethash |-> secrethash,
     secret |-> secrethash, transfers_pair |-> << >>]

MediatorTransferState_init(secrethash) ==
    [type |-> "MediatorTransferState", secrethash |-> secrethash,
     secret |-> None, transfers_pair |-> << >>]

valid_states == {"secret_request", "reveal_secret", "waiting_close", "expired"}

\* the constructor as it would be with a state name outside valid_states
TargetTransferState_init_misnamed(route, transfer_) ==
    [type |-> "TargetTransferState", route |-> route, transfer |-> transfer_,
     secret |-> None, state |-> "secretrequest"]

TargetTransferState_init(route, transfer_) ==
    [type |-> "TargetTransferState", route |-> route, transfer |-> transfer_,
     secret |-> None, state |-> "secret_request"]

LockedTransferUnsignedState_init(identifier, token, balance_proof, lock, initiator, target_) ==
    IF ~isinstance(lock, "HashTimeLockState") THEN ValueError
    ELSE IF ~isinstance(balance_proof, "BalanceProofUnsignedState") THEN ValueError
    ELSE IF Is(balance_proof.locksroot, EMPTY_MERKLE_ROOT) THEN ValueError
    ELSE [type |-> "LockedTransferUnsignedState", identifier |-> identifier,
          token |-> token, balance_proof |-> balance_proof, lock |-> lock,
          initiator |-> initiator, target |-> target_]

LockedTransferSignedState_init(identifier, token, balance_proof, lock, initiator, target_) ==
    IF ~isinstance(lock, "HashTimeLockState") THEN ValueError
    ELSE IF ~isinstance(balance_proof, "BalanceProofSignedState") THEN ValueError
    ELSE IF Is(balance_proof.locksroot, EMPTY_MERKLE_ROOT) THEN ValueError
    ELSE [type |-> "LockedTransferSignedState", identifier |-> identifier,
          token |-> token, balance_proof |-> balance_proof, lock |-> lock,
          initiator |-> initiator, target |-> target_]

lockedtransfersigned_from_message(msg) ==
    LET balance_proof == BalanceProofSignedState(
            msg.nonce, msg.transferred_amount, msg.locksroot, msg.channel,
            msg.message_hash, msg.signature, msg.sender)
        lock == HashTimeLockState(
            msg.lock.amount, msg.lock.expiration, msg.lock.secrethash)
    IN LockedTransferSignedState_init(
            msg.identifier, msg.token, balance_proof, lock,
            msg.initiator, msg.target)

\* the constructor as it would be with the hash taken of another argument
TransferDescriptionWithSecretState_init_wrong_hash(identifier, amount, registry, token, initiator, target_, secret) ==
    LET secrethash == sha3(token)
    IN [type |-> "TransferDescriptionWithSecretState",
        identifier |-> identifier, amount |-> amount, registry |-> registry,
        token |-> token, initiator |-> initiator, target |-> target_,
        secret |-> secret, secrethash |-> secrethash]

TransferDescriptionWithSecretState_init(identifier, amount, registry, token, initiator, target_, secret) ==
    LET secrethash == sha3(secret)
    IN [type |-> "TransferDescriptionWithSecretState",
        identifier |-> identifier, amount |-> amount, registry |-> registry,
        token |-> token, initiator |-> initiator, target |-> target_,
        secret |-> secret, secrethash |-> secrethash]

valid_payee_states ==
    {"payee_pending", "payee_secret_revealed", "payee_refund_withdraw",
     "payee_contract_withdraw", "payee_balance_proof", "payee_expired"}

valid_payer_states ==
    {"payer_pending", "payer_secret_revealed", "payer_waiting_close",
     "payer_waiting_withdraw", "payer_contract_withdraw",
     "payer_balance_proof", "payer_expired"}

\* the constructor as it would be with the payer's name on the payee side
MediationPairState_init_payee_misnamed(payer_transfer, payee_address, payee_transfer) ==
    IF ~isinstance(payer_transfer, "LockedTransferSignedState") THEN ValueError
    ELSE IF ~isinstance(payee_address, "bytes") THEN ValueError
    ELSE IF ~isinstance(payee_transfer, "LockedTransferUnsignedState") THEN ValueError
    ELSE [type |-> "MediationPairState", payer_transfer |-> payer_transfer,
          payee_address |-> payee_address, payee_transfer |-> payee_transfer,
          payer_state |-> "payer_pending", payee_state |-> "payer_pending"]

MediationPairState_init(payer_transfer, payee_address, payee_transfer) ==
    IF ~isinstance(payer_transfer, "LockedTransferSignedState") THEN ValueError
    ELSE IF ~isinstance(payee_address, "bytes") THEN ValueError
    ELSE IF ~isinstance(payee_transfer, "LockedTransferUnsignedState") THEN ValueError
    ELSE [type |-> "MediationPairState", payer_transfer |-> payer_transfer,
          payee_address |-> payee_address, payee_transfer |-> payee_transfer,
          payer_state |-> "payer_pending", payee_state |-> "payee_pending"]

----------------------------------------------------------------------------
(* Inputs of the constructors *)

\* minimum safety margin, in blocks, between payee and payer lock expirations
reveal_timeout == 1

Amounts == 1..MaxAmount
Expirations == (reveal_timeout + 1)..MaxExpiration

Secret1 == bytes(1, 11)
Identifiers == {1, 2}

Locks ==
    {HashTimeLockState(am, e, sha3(Secret1)) : am \in Amounts, e \in Expirations}

FirstLock == HashTimeLockState(1, reveal_timeout + 1, sha3(Secret1))

UnsignedProof(locksroot) ==
    BalanceProofUnsignedState(1, 0, locksroot, bytes(31, 31), bytes(41, 41))

SignedProof(locksroot) ==
    BalanceProofSignedState(1, 0, locksroot, bytes(31, 31), bytes(41, 41),
                            bytes(51, 51), bytes(21, 21))

\* a LockedTransfer message as lockedtransfersigned_from_message reads it
LockedTransferMessage(locksroot, lock) ==
    [type |-> "LockedTransfer", nonce |-> 1, transferred_amount |-> 0,
     locksroot |-> locksroot, channel |-> bytes(31, 31),
     message_hash |-> bytes(41, 41), signature |-> bytes(51, 51),
     sender |-> bytes(21, 21), lock |-> lock, identifier |-> 1,
     token |-> bytes(61, 61), initiator |-> bytes(21, 21),
     target |-> bytes(22, 22)]

\* the outcome of a constructor call: the value is kept unless the call raised
Construct(slot, value) ==
    IF value = ValueError
    THEN /\ raised' = "ValueError"
         /\ slot' = slot
    ELSE /\ raised' = ""
         /\ slot' = value

----------------------------------------------------------------------------
(* Construction of the state values *)

NewTransferDescription ==
    /\ \E secret \in Secrets, identifier \in Identifiers :
          Construct(description,
                    TransferDescriptionWithSecretState_init(
                        identifier, 1, bytes(71, 71), bytes(61, 61),
                        bytes(21, 21), bytes(22, 22), secret))
    /\ UNCHANGED <<transfer, pair, nodeVars, eqVars, codecVars>>

ReceiveLockedTransfer ==
    /\ \E locksroot \in Locksroots, lock \in Locks :
          Construct(transfer,
                    lockedtransfersigned_from_message(
                        LockedTransferMessage(locksroot, lock)))
    /\ UNCHANGED <<description, pair, nodeVars, eqVars, codecVars>>

NewLockedTransferSigned ==
    /\ \E locksroot \in Locksroots, lock \in {FirstLock, None},
          proof \in {"BalanceProofSignedState", "BalanceProofUnsignedState"} :
          Construct(transfer,
                    LockedTransferSignedState_init(
                        1, bytes(61, 61),
                        IF proof = "BalanceProofSignedState"
                        THEN SignedProof(locksroot) ELSE UnsignedProof(locksroot),
                        lock, bytes(21, 21), bytes(22, 22)))
    /\ UNCHANGED <<description, pair, nodeVars, eqVars, codecVars>>

NewLockedTransferUnsigned ==
    /\ \E locksroot \in Locksroots, lock \in {FirstLock, None},
          proof \in {"BalanceProofSignedState", "BalanceProofUnsignedState"} :
          Construct(transfer,
                    LockedTransferUnsignedState_init(
                        1, bytes(61, 61),
                        IF proof = "BalanceProofSignedState"
                        THEN SignedProof(locksroot) ELSE UnsignedProof(locksroot),
                        lock, bytes(21, 21), bytes(22, 22)))
    /\ UNCHANGED <<description, pair, nodeVars, eqVars, codecVars>>

\* the transfers a caller can hold: built by the constructors above
PayerTransfers ==
    {lockedtransfersigned_from_message(LockedTransferMessage(LockRoot, lock)) :
        lock \in Locks}

PayeeTransfers ==
    {LockedTransferUnsignedState_init(1, bytes(61, 61), UnsignedProof(LockRoot),
                                      lock, bytes(21, 21), bytes(22, 22)) :
        lock \in Locks}

NewMediationPair ==
    /\ \E payer_transfer \in PayerTransfers \cup {None},
          payee_address \in {bytes(22, 22), None},
          payee_transfer \in PayeeTransfers \cup PayerTransfers :
          Construct(pair,
                    MediationPairState_init(
                        payer_transfer, payee_address, payee_transfer))
    /\ UNCHANGED <<description, transfer, nodeVars, eqVars, codecVars>>

----------------------------------------------------------------------------
(* Mediator machine: the transitions of MediatorTransferState and of its   *)
(* MediationPairStates                                                     *)

Pairs == IF mediator = None THEN {} ELSE DOMAIN mediator.transfers_pair

SetPairState(i, side, state) ==
    mediator' = [mediator EXCEPT !.transfers_pair[i][side] = state]

\* ActionInitMediator: the state value of a new mediation
InitMediator ==
    /\ mediator = None
    /\ mediator' = MediatorTransferState_init(sha3(Secret1))
    /\ UNCHANGED <<block, target, ctorVars, eqVars, codecVars>>

\* the lock of the next incoming transfer: of the initiator's side at first,
\* of the refund of the last payee after that
PayerLocks ==
    IF mediator.transfers_pair = << >>
    THEN {HashTimeLockState(MaxAmount, MaxExpiration, mediator.secrethash)}
    ELSE {mediator.transfers_pair[Len(mediator.transfers_pair)].payee_transfer.lock}

\* a received transfer is forwarded: a pair of the incoming transfer and of the
\* outgoing one, which pays the amount less a fee of 1 (while any is left) and
\* expires reveal_timeout blocks earlier
MediateTransfer ==
    /\ mediator # None
    /\ \E lock \in PayerLocks :
          LET fee == IF lock.amount > 1 THEN 1 ELSE 0
              payer_transfer ==
                  lockedtransfersigned_from_message(
                      LockedTransferMessage(LockRoot, lock))
              payee_lock ==
                  HashTimeLockState(lock.amount - fee,
                                    lock.expiration - reveal_timeout,
                                    lock.secrethash)
              payee_transfer ==
                  LockedTransferUnsignedState_init(
                      1, bytes(61, 61), UnsignedProof(LockRoot), payee_lock,
                      bytes(21, 21), bytes(22, 22))
              new == MediationPairState_init(
                         payer_transfer, bytes(22, 22), payee_transfer)
          IN /\ payee_lock.amount >= 1
             /\ payee_lock.expiration > block
             /\ new # ValueError
             /\ mediator' = [mediator EXCEPT
                                !.transfers_pair = Append(@, new)]
    /\ UNCHANGED <<block, target, ctorVars, eqVars, codecVars>>

\* ReceiveSecretReveal(secret) from the payee of pair i
ReceiveSecretReveal ==
    /\ \E i \in Pairs, secret \in Secrets :
          IF sha3(secret) # mediator.secrethash
          THEN UNCHANGED mediator
          ELSE mediator' =
                 [mediator EXCEPT
                    !.secret = IF @ = None THEN secret ELSE @,
                    !.transfers_pair[i].payee_state =
                        IF @ = "payee_pending"
                        THEN "payee_secret_revealed" ELSE @]
    /\ UNCHANGED <<block, target, ctorVars, eqVars, codecVars>>

\* SendRevealSecret was sent to the payer of pair i
SendRevealSecret ==
    /\ \E i \in Pairs :
          /\ mediator.secret # None
          /\ mediator.transfers_pair[i].payer_state = "payer_pending"
          /\ SetPairState(i, "payer_state", "payer_secret_revealed")
    /\ UNCHANGED <<block, target, ctorVars, eqVars, codecVars>>

\* ReceiveBalanceProof from the payer of pair i
ReceiveBalanceProof ==
    /\ \E i \in Pairs :
          /\ mediator.transfers_pair[i].payer_state = "payer_secret_revealed"
          /\ SetPairState(i, "payer_state", "payer_balance_proof")
    /\ UNCHANGED <<block, target, ctorVars, eqVars, codecVars>>

\* SendBalanceProof to the payee of pair i was acknowledged
SendBalanceProof ==
    /\ \E i \in Pairs :
          /\ mediator.transfers_pair[i].payee_state = "payee_secret_revealed"
          /\ SetPairState(i, "payee_state", "payee_balance_proof")
    /\ UNCHANGED <<block, target, ctorVars, eqVars, codecVars>>

\* a side still pending when its lock reaches its expiration has expired
ExpiredPair(p, n) ==
    [p EXCEPT
       !.payer_state =
           IF @ = "payer_pending" /\ n >= p.payer_transfer.lock.expiration
           THEN "payer_expired" ELSE @,
       !.payee_state =
           IF @ = "payee_pending" /\ n >= p.payee_transfer.lock.expiration
           THEN "payee_expired" ELSE @]

\* Block(n)
MediatorBlock ==
    /\ block < MaxBlock
    /\ block' = block + 1
    /\ mediator' =
          IF mediator = None THEN None
          ELSE [mediator EXCEPT
                  !.transfers_pair =
                      [i \in DOMAIN @ |-> ExpiredPair(@[i], block + 1)]]
    /\ UNCHANGED <<target, ctorVars, eqVars, codecVars>>

\* ContractChannelClose observed on the payer channel of pair i
ContractChannelClose ==
    /\ \E i \in Pairs :
          /\ mediator.transfers_pair[i].payer_state
                \in {"payer_pending", "payer_secret_revealed"}
          /\ SetPairState(i, "payer_state", "payer_waiting_close")
    /\ UNCHANGED <<block, target, ctorVars, eqVars, codecVars>>

\* ContractSendWithdraw was sent for the payer lock of pair i
ContractSendWithdraw ==
    /\ \E i \in Pairs :
          /\ mediator.secret # None
          /\ mediator.transfers_pair[i].payer_state = "payer_waiting_close"
          /\ SetPairState(i, "payer_state", "payer_waiting_withdraw")
    /\ UNCHANGED <<block, target, ctorVars, eqVars, codecVars>>

\* ContractChannelWithdraw observed for the withdraw this node sent
PayerContractWithdraw ==
    /\ \E i \in Pairs :
          /\ mediator.transfers_pair[i].payer_state = "payer_waiting_withdraw"
          /\ SetPairState(i, "payer_state", "payer_contract_withdraw")
    /\ UNCHANGED <<block, target, ctorVars, eqVars, codecVars>>

\* the transition as it would be if it were taken from payee_expired too
PayeeContractWithdraw_from_any ==
    /\ \E i \in Pairs, secret \in Secrets :
          /\ sha3(secret) = mediator.secrethash
          /\ mediator' =
                 [mediator EXCEPT
                    !.secret = IF @ = None THEN secret ELSE @,
                    !.transfers_pair[i].payee_state = "payee_contract_withdraw"]
    /\ UNCHANGED <<block, target, ctorVars, eqVars, codecVars>>

\* ContractChannelWithdraw(channel, secret, block): the payee of pair i took
\* the token on-chain, which shows the secret
PayeeContractWithdraw ==
    /\ \E i \in Pairs, secret \in Secrets :
          /\ sha3(secret) = mediator.secrethash
          /\ mediator.transfers_pair[i].payee_state # "payee_expired"
          /\ mediator' =
                 [mediator EXCEPT
                    !.secret = IF @ = None THEN secret ELSE @,
                    !.transfers_pair[i].payee_state = "payee_contract_withdraw"]
    /\ UNCHANGED <<block, target, ctorVars, eqVars, codecVars>>

\* the refund transfer, the payer side of another pair, was withdrawn on-chain
PayeeRefundWithdraw ==
    /\ \E i \in Pairs, j \in Pairs :
          /\ i # j
          /\ mediator.transfers_pair[j].payer_state = "payer_contract_withdraw"
          /\ mediator.transfers_pair[i].payee_state = "payee_pending"
          /\ SetPairState(i, "payee_state", "payee_refund_withdraw")
    /\ UNCHANGED <<block, target, ctorVars, eqVars, codecVars>>

NextMediator ==
    \/ InitMediator
    \/ MediateTransfer
    \/ ReceiveSecretReveal
    \/ SendRevealSecret
    \/ ReceiveBalanceProof
    \/ SendBalanceProof
    \/ MediatorBlock
    \/ ContractChannelClose
    \/ ContractSendWithdraw
    \/ PayerContractWithdraw
    \/ PayeeContractWithdraw
    \/ PayeeRefundWithdraw

----------------------------------------------------------------------------
(* Target machine: the transitions of TargetTransferState *)

RouteState(node_address, channel_identifier) ==
    [type |-> "RouteState", node_address |-> node_address,
     channel_identifier |-> channel_identifier]

\* a LockedTransfer whose target is this node
InitTarget ==
    /\ target = None
    /\ \E locksroot \in Locksroots, lock \in Locks :
          LET transfer_ == lockedtransfersigned_from_message(
                               LockedTransferMessage(locksroot, lock))
          IN /\ transfer_ # ValueError
             /\ lock.expiration > block
             /\ \E node_address \in Addresses :
                   target' = TargetTransferState_init(
                                 RouteState(node_address, bytes(31, 31)),
                                 transfer_)
    /\ UNCHANGED <<block, mediator, ctorVars, eqVars, codecVars>>

\* SecretReveal(secret)
TargetSecretReveal ==
    /\ target # None
    /\ \E secret \in Secrets :
          IF /\ sha3(secret) = target.transfer.lock.secrethash
             /\ target.state = "secret_request"
          THEN target' = [target EXCEPT !.secret = secret,
                                        !.state = "reveal_secret"]
          ELSE UNCHANGED target
    /\ UNCHANGED <<block, mediator, ctorVars, eqVars, codecVars>>

\* BalanceProof that unlocks the lock: the transfer is complete
TargetBalanceProof ==
    /\ target # None
    /\ target.state = "reveal_secret"
    /\ target' = None
    /\ UNCHANGED <<block, mediator, ctorVars, eqVars, codecVars>>

TargetAtBlock(t, n) ==
    IF t.state \in {"secret_request", "reveal_secret", "waiting_close"}
       /\ n >= t.transfer.lock.expiration
    THEN [t EXCEPT !.state = "expired"]
    ELSE IF t.state \in {"secret_request", "reveal_secret"}
            /\ n >= t.transfer.lock.expiration - reveal_timeout
    THEN [t EXCEPT !.state = "waiting_close"]
    ELSE t

\* Block(n)
TargetBlock ==
    /\ block < MaxBlock
    /\ block' = block + 1
    /\ target' = IF target = None THEN None
                 ELSE TargetAtBlock(target, block + 1)
    /\ UNCHANGED <<mediator, ctorVars, eqVars, codecVars>>

NextTarget ==
    \/ InitTarget
    \/ TargetSecretReveal
    \/ TargetBalanceProof
    \/ TargetBlock

----------------------------------------------------------------------------
(* Equality of the state values: __eq__ and __ne__ of state.py *)

HashTimeLockState_eq(self, other) ==
    /\ isinstance(other, "HashTimeLockState")
    /\ self.amount = other.amount
    /\ self.expiration = other.expiration
    /\ self.secrethash = other.secrethash

BalanceProofUnsignedState_eq(self, other) ==
    /\ isinstance(other, "BalanceProofUnsignedState")
    /\ self.nonce = other.nonce
    /\ self.transferred_amount = other.transferred_amount
    /\ BytesEq(self.locksroot, other.locksroot)
    /\ BytesEq(self.channel_identifier, other.channel_identifier)
    /\ BytesEq(self.message_hash, other.message_hash)

BalanceProofSignedState_eq(self, other) ==
    /\ isinstance(other, "BalanceProofSignedState")
    /\ self.nonce = other.nonce
    /\ self.transferred_amount = other.transferred_amount
    /\ BytesEq(self.locksroot, other.locksroot)
    /\ BytesEq(self.channel_identifier, other.channel_identifier)
    /\ BytesEq(self.message_hash, other.message_hash)
    /\ BytesEq(self.signature, other.signature)
    /\ BytesEq(self.sender, other.sender)

RouteState_eq(self, other) ==
    /\ isinstance(other, "RouteState")
    /\ BytesEq(self.node_address, other.node_address)
    /\ BytesEq(self.channel_identifier, other.channel_identifier)

\* the events kept in secretrequest and revealsecret compare by their fields
Event_eq(self, other) == self = other

\* x == y on lists of bytes, element by element
BytesListEq(x, y) ==
    /\ Len(x) = Len(y)
    /\ \A i \in 1..Len(x) : BytesEq(x[i], y[i])

\* x == y where either may be None, on bytes
OptionalBytesEq(x, y) ==
    IF x = None \/ y = None THEN x = None /\ y = None ELSE BytesEq(x, y)

\* x == y where either may be None, on the events
OptionalEventEq(x, y) ==
    IF x = None \/ y = None THEN x = None /\ y = None ELSE Event_eq(x, y)

InitiatorPaymentState_eq(self, other) ==
    /\ isinstance(other, "InitiatorPaymentState")
    /\ BytesEq(self.initiator, other.initiator)
    /\ BytesListEq(self.cancelled_channels, other.cancelled_channels)

InitiatorPaymentState_ne(self, other) == ~InitiatorPaymentState_eq(self, other)

LockedTransferUnsignedState_eq(self, other) ==
    /\ isinstance(other, "LockedTransferUnsignedState")
    /\ self.identifier = other.identifier
    /\ BytesEq(self.token, other.token)
    /\ BalanceProofUnsignedState_eq(self.balance_proof, other.balance_proof)
    /\ HashTimeLockState_eq(self.lock, other.lock)
    /\ BytesEq(self.initiator, other.initiator)
    /\ BytesEq(self.target, other.target)

LockedTransferUnsignedState_ne(self, other) ==
    ~LockedTransferUnsignedState_eq(self, other)

LockedTransferSignedState_eq(self, other) ==
    /\ isinstance(other, "LockedTransferSignedState")
    /\ self.identifier = other.identifier
    /\ BytesEq(self.token, other.token)
    /\ BalanceProofSignedState_eq(self.balance_proof, other.balance_proof)
    /\ HashTimeLockState_eq(self.lock, other.lock)
    /\ BytesEq(self.initiator, other.initiator)
    /\ BytesEq(self.target, other.target)

LockedTransferSignedState_ne(self, other) ==
    ~LockedTransferSignedState_eq(self, other)

TransferDescriptionWithSecretState_eq(self, other) ==
    /\ isinstance(other, "TransferDescriptionWithSecretState")
    /\ self.identifier = other.identifier
    /\ self.amount = other.amount
    /\ BytesEq(self.registry, other.registry)
    /\ BytesEq(self.token, other.token)
    /\ BytesEq(self.initiator, other.initiator)
    /\ BytesEq(self.target, other.target)
    /\ BytesEq(self.secret, other.secret)
    /\ self.secrethash = other.secrethash

TransferDescriptionWithSecretState_ne(self, other) ==
    ~TransferDescriptionWithSecretState_eq(self, other)

\* x == y where either may be None, on LockedTransferUnsignedState
OptionalTransferEq(x, y) ==
    IF x = None \/ y = None THEN x = None /\ y = None
    ELSE LockedTransferUnsignedState_eq(x, y)

InitiatorTransferState_eq(self, other) ==
    /\ isinstance(other, "InitiatorTransferState")
    /\ TransferDescriptionWithSecretState_eq(
           self.transfer_description, other.transfer_description)
    /\ BytesEq(self.channel_identifier, other.channel_identifier)
    /\ OptionalTransferEq(self.transfer, other.transfer)
    /\ OptionalEventEq(self.secretrequest, other.secretrequest)
    /\ OptionalEventEq(self.revealsecret, other.revealsecret)

InitiatorTransferState_ne(self, other) == ~InitiatorTransferState_eq(self, other)

\* the comparison as it would be with payer_state left out
MediationPairState_eq_without_payer_state(self, other) ==
    /\ isinstance(other, "MediationPairState")
    /\ BytesEq(self.payee_address, other.payee_address)
    /\ LockedTransferUnsignedState_eq(self.payee_transfer, other.payee_transfer)
    /\ self.payee_state = other.payee_state
    /\ LockedTransferSignedState_eq(self.payer_transfer, other.payer_transfer)

MediationPairState_eq(self, other) ==
    /\ isinstance(other, "MediationPairState")
    /\ BytesEq(self.payee_address, other.payee_address)
    /\ LockedTransferUnsignedState_eq(self.payee_transfer, other.payee_transfer)
    /\ self.payee_state = other.payee_state
    /\ LockedTransferSignedState_eq(self.payer_transfer, other.payer_transfer)
    /\ self.payer_state = other.payer_state

MediationPairState_ne(self, other) == ~MediationPairState_eq(self, other)

\* x == y on lists of MediationPairState, element by element
PairListEq(x, y) ==
    /\ Len(x) = Len(y)
    /\ \A i \in 1..Len(x) : MediationPairState_eq(x[i], y[i])

MediatorTransferState_eq(self, other) ==
    /\ isinstance(other, "MediatorTransferState")
    /\ self.secrethash = other.secrethash
    /\ OptionalBytesEq(self.secret, other.secret)
    /\ PairListEq(self.transfers_pair, other.transfers_pair)

MediatorTransferState_ne(self, other) == ~MediatorTransferState_eq(self, other)

TargetTransferState_eq(self, other) ==
    /\ isinstance(other, "TargetTransferState")
    /\ RouteState_eq(self.route, other.route)
    /\ LockedTransferSignedState_eq(self.transfer, other.transfer)
    /\ OptionalBytesEq(self.secret, other.secret)
    /\ self.state = other.state

TargetTransferState_ne(self, other) == ~TargetTransferState_eq(self, other)

\* self == other: the __eq__ of the class of self
Eq(self, other) ==
    CASE self.type = "InitiatorPaymentState" ->
             InitiatorPaymentState_eq(self, other)
      [] self.type = "InitiatorTransferState" ->
             InitiatorTransferState_eq(self, other)
      [] self.type = "MediatorTransferState" ->
             MediatorTransferState_eq(self, other)
      [] self.type = "TargetTransferState" ->
             TargetTransferState_eq(self, other)
      [] self.type = "LockedTransferUnsignedState" ->
             LockedTransferUnsignedState_eq(self, other)
      [] self.type = "LockedTransferSignedState" ->
             LockedTransferSignedState_eq(self, other)
      [] self.type = "TransferDescriptionWithSecretState" ->
             TransferDescriptionWithSecretState_eq(self, other)
      [] self.type = "MediationPairState" ->
             MediationPairState_eq(self, other)

\* self != other: the __ne__ of the class of self
Ne(self, other) ==
    CASE self.type = "InitiatorPaymentState" ->
             InitiatorPaymentState_ne(self, other)
      [] self.type = "InitiatorTransferState" ->
             InitiatorTransferState_ne(self, other)
      [] self.type = "MediatorTransferState" ->
             MediatorTransferState_ne(self, other)
      [] self.type = "TargetTransferState" ->
             TargetTransferState_ne(self, other)
      [] self.type = "LockedTransferUnsignedState" ->
             LockedTransferUnsignedState_ne(self, other)
      [] self.type = "LockedTransferSignedState" ->
             LockedTransferSignedState_ne(self, other)
      [] self.type = "TransferDescriptionWithSecretState" ->
             TransferDescriptionWithSecretState_ne(self, other)
      [] self.type = "MediationPairState" ->
             MediationPairState_ne(self, other)

----------------------------------------------------------------------------
(* Values to compare: the values a constructor of state.py yields from two  *)
(* choices per argument, and the assignments the role machines make to them *)

Tokens == {bytes(61, 61), bytes(62, 62)}
Registries == {bytes(71, 71), bytes(72, 72)}
Channels == {bytes(31, 31), bytes(32, 32)}
Hashes == {sha3(secret) : secret \in Secrets}
EqLocks == {HashTimeLockState(am, 2, sha3(Secret1)) : am \in {1, 2}}

EqUnsignedProofs ==
    {BalanceProofUnsignedState(nonce, 0, LockRoot, bytes(31, 31), bytes(41, 41)) :
        nonce \in {1, 2}}

EqSignedProofs ==
    {BalanceProofSignedState(nonce, 0, LockRoot, bytes(31, 31), bytes(41, 41),
                             bytes(51, 51), bytes(21, 21)) : nonce \in {1, 2}}

\* the argument tuples that differ from the tuple base in at most one place
OneOff(args, base) ==
    {x \in args : Cardinality({i \in DOMAIN base : x[i] # base[i]}) <= 1}

UnsignedArgs ==
    OneOff(Identifiers \X Tokens \X EqUnsignedProofs \X EqLocks
               \X Addresses \X Addresses,
           <<1, bytes(61, 61), UnsignedProof(LockRoot),
             HashTimeLockState(1, 2, sha3(Secret1)), bytes(21, 21), bytes(22, 22)>>)

UnsignedTransfers ==
    {LockedTransferUnsignedState_init(x[1], x[2], x[3], x[4], x[5], x[6]) :
        x \in UnsignedArgs}

SignedArgs ==
    OneOff(Identifiers \X Tokens \X EqSignedProofs \X EqLocks
               \X Addresses \X Addresses,
           <<1, bytes(61, 61), SignedProof(LockRoot),
             HashTimeLockState(1, 2, sha3(Secret1)), bytes(21, 21), bytes(22, 22)>>)

SignedTransfers ==
    {LockedTransferSignedState_init(x[1], x[2], x[3], x[4], x[5], x[6]) :
        x \in SignedArgs}

DescriptionArgs ==
    OneOff(Identifiers \X {1, 2} \X Registries \X Tokens \X Addresses
               \X Addresses \X Secrets,
           <<1, 1, bytes(71, 71), bytes(61, 61), bytes(21, 21), bytes(22, 22),
             Secret1>>)

Descriptions ==
    {TransferDescriptionWithSecretState_init(
         x[1], x[2], x[3], x[4], x[5], x[6], x[7]) : x \in DescriptionArgs}

\* two values of each nested type, for the fields that hold one
TwoUnsignedTransfers ==
    {LockedTransferUnsignedState_init(
         1, bytes(61, 61), UnsignedProof(LockRoot), lock,
         bytes(21, 21), bytes(22, 22)) : lock \in EqLocks}

TwoSignedTransfers ==
    {lockedtransfersigned_from_message(LockedTransferMessage(LockRoot, lock)) :
        lock \in EqLocks}

TwoDescriptions ==
    {TransferDescriptionWithSecretState_init(
         1, 1, bytes(71, 71), bytes(61, 61), bytes(21, 21), bytes(22, 22),
         secret) : secret \in Secrets}

TwoPairs ==
    {MediationPairState_init(payer_transfer, bytes(22, 22), payee_transfer) :
        payer_transfer \in TwoSignedTransfers,
        payee_transfer \in {CHOOSE u \in TwoUnsignedTransfers : TRUE}}

Routes == {RouteState(node, bytes(31, 31)) : node \in Addresses}

SecretRequests ==
    {[type |-> "ReceiveSecretRequest", identifier |-> 1, amount |-> am,
      secrethash |-> sha3(Secret1), sender |-> bytes(22, 22)] : am \in {1, 2}}

RevealSecrets ==
    {[type |-> "SendRevealSecret", identifier |-> 1, secret |-> Secret1,
      receiver |-> node] : node \in Addresses}

Constructed ==
    {InitiatorPaymentState_init(initiator) : initiator \in Addresses}
    \cup {InitiatorTransferState_init(d, channel) :
            d \in TwoDescriptions, channel \in Channels}
    \cup {MediatorTransferState_init(secrethash) : secrethash \in Hashes}
    \cup {TargetTransferState_init(route, transfer_) :
            route \in Routes, transfer_ \in TwoSignedTransfers}
    \cup UnsignedTransfers
    \cup SignedTransfers
    \cup Descriptions
    \cup {MediationPairState_init(payer_transfer, payee_address, payee_transfer) :
            payer_transfer \in TwoSignedTransfers, payee_address \in Addresses,
            payee_transfer \in TwoUnsignedTransfers}

\* the sequences over the elements of S without repetition, in every order
Orders(S) ==
    {<< >>} \cup {<<x>> : x \in S} \cup {<<x, y>> : x \in S, y \in S}

\* the values the role machines assign to field f of a value of class t
Assigned(t, f) ==
    CASE t = "InitiatorPaymentState" /\ f = "cancelled_channels" ->
             Orders(Channels)
      [] t = "InitiatorTransferState" /\ f = "transfer" ->
             {None} \cup TwoUnsignedTransfers
      [] t = "InitiatorTransferState" /\ f = "secretrequest" ->
             {None} \cup SecretRequests
      [] t = "InitiatorTransferState" /\ f = "revealsecret" ->
             {None} \cup RevealSecrets
      [] t = "MediatorTransferState" /\ f = "secret" ->
             {None} \cup Secrets
      [] t = "MediatorTransferState" /\ f = "transfers_pair" ->
             Orders(TwoPairs)
      [] t = "TargetTransferState" /\ f = "secret" ->
             {None} \cup Secrets
      [] t = "TargetTransferState" /\ f = "state" ->
             valid_states
      [] t = "MediationPairState" /\ f = "payee_state" ->
             valid_payee_states
      [] t = "MediationPairState" /\ f = "payer_state" ->
             valid_payer_states
      [] OTHER -> {}

\* a value is built and kept as the left operand, and as the right one
EqNewLeft ==
    /\ \E x \in Constructed : a' = x /\ b' = x
    /\ cmp' = None
    /\ UNCHANGED <<ctorVars, nodeVars, codecVars>>

\* another value is built as the right operand
EqNewRight ==
    /\ a # None
    /\ \E x \in Constructed : b' = x
    /\ cmp' = None
    /\ UNCHANGED <<a, ctorVars, nodeVars, codecVars>>

\* a role machine assigns a field of the right operand
EqAssign ==
    /\ b # None
    /\ \E f \in DOMAIN b \ {"type"} :
          \E v \in Assigned(b.type, f) : b' = [b EXCEPT ![f] = v]
    /\ cmp' = None
    /\ UNCHANGED <<a, ctorVars, nodeVars, codecVars>>

\* a == b and a != b are evaluated
EqCompare ==
    /\ a # None
    /\ cmp' = [type |-> "cmp", eq |-> Eq(a, b), ne |-> Ne(a, b)]
    /\ UNCHANGED <<a, b, ctorVars, nodeVars, codecVars>>

NextEq ==
    \/ EqNewLeft
    \/ EqNewRight
    \/ EqAssign
    \/ EqCompare

----------------------------------------------------------------------------
(* Serialization of the transfer messages: to_dict and from_dict           *)
(*                                                                         *)
(* An integer is the sequence of its base-2^16 limbs, least significant    *)
(* first and without leading zero limbs, so that 256-bit values keep their *)
(* full range.  A string is the sequence of its characters.                *)

LimbBase == 2^16

Zero == << >>
One == <<1>>
UINT64_MAX == [i \in 1..4 |-> LimbBase - 1]
UINT256_MAX == [i \in 1..16 |-> LimbBase - 1]

DigitChars == <<"0", "1", "2", "3", "4", "5", "6", "7", "8", "9">>
HexChars == DigitChars \o <<"a", "b", "c", "d", "e", "f">>

\* n without its most significant limbs that are zero
RECURSIVE Normalize(_)
Normalize(n) ==
    IF n # << >> /\ n[Len(n)] = 0
    THEN Normalize(SubSeq(n, 1, Len(n) - 1))
    ELSE n

\* digits are taken and put ChunkDigits at a time
ChunkDigits == 4
Chunk == 10^ChunkDigits

\* n divided by Chunk, from limb i down: [q |-> quotient, r |-> remainder]
RECURSIVE DivChunk(_, _, _, _)
DivChunk(n, i, rem, acc) ==
    IF i = 0 THEN [q |-> Normalize(acc), r |-> rem]
    ELSE LET cur == rem * LimbBase + n[i]
         IN DivChunk(n, i - 1, cur % Chunk, <<cur \div Chunk>> \o acc)

\* n * Chunk + carry, from limb i up
RECURSIVE TimesChunkPlus(_, _, _, _)
TimesChunkPlus(n, i, carry, acc) ==
    IF i > Len(n) THEN (IF carry = 0 THEN acc ELSE Append(acc, carry))
    ELSE LET cur == n[i] * Chunk + carry
         IN TimesChunkPlus(n, i + 1, cur \div LimbBase,
                           Append(acc, cur % LimbBase))

\* the ChunkDigits digits of r < Chunk, leading zeros kept
Padded(r) ==
    [k \in 1..ChunkDigits |->
        DigitChars[((r \div (10^(ChunkDigits - k))) % 10) + 1]]

\* the digits of r, 0 < r < Chunk, with no leading zero
Unpadded(r) ==
    LET first == CHOOSE k \in 1..ChunkDigits :
                    /\ Padded(r)[k] # "0"
                    /\ \A j \in 1..(k - 1) : Padded(r)[j] = "0"
    IN SubSeq(Padded(r), first, ChunkDigits)

\* str(n), n > 0: the decimal digits of n before those in acc
RECURSIVE Digits(_, _)
Digits(n, acc) ==
    LET d == DivChunk(n, Len(n), 0, << >>)
    IN IF d.q = Zero THEN Unpadded(d.r) \o acc
       ELSE Digits(d.q, Padded(d.r) \o acc)

str(n) == IF n = Zero THEN <<"0">> ELSE Digits(n, << >>)

DigitOf(c) == CHOOSE d \in 0..15 : HexChars[d + 1] = c

\* the value of the digits s[from..to], at most ChunkDigits of them
ChunkValue(s, from, to) ==
    LET v[k \in (from - 1)..to] ==
            IF k = from - 1 THEN 0 ELSE v[k - 1] * 10 + DigitOf(s[k])
    IN v[to]

\* int(s): the integer whose decimal digits are s, read from position k on
RECURSIVE int(_, _, _)
int(s, k, acc) ==
    IF k > Len(s) THEN acc
    ELSE LET to == k + ((Len(s) - k) % ChunkDigits)
         IN int(s, to + 1,
                TimesChunkPlus(acc, 1, ChunkValue(s, k, to), << >>))

\* binary data as hex with the 0x prefix
RECURSIVE data_encoder(_, _, _)
data_encoder(data, k, acc) ==
    IF k > Len(data) THEN acc
    ELSE data_encoder(data, k + 1,
             acc \o <<HexChars[(data[k] \div 16) + 1], HexChars[(data[k] % 16) + 1]>>)

RECURSIVE data_decoder(_, _, _)
data_decoder(s, k, acc) ==
    IF k + 1 > Len(s) THEN acc
    ELSE data_decoder(s, k + 2,
             Append(acc, DigitOf(s[k]) * 16 + DigitOf(s[k + 1])))

NumericFields(m) ==
    DOMAIN m \cap {"nonce", "identifier", "transferred_amount", "amount", "fee"}

BinaryFields(m) ==
    DOMAIN m \cap {"token", "channel", "recipient", "locksroot", "signature"}

\* x.to_dict()
to_dict(m) ==
    [f \in DOMAIN m |->
        IF f \in NumericFields(m) THEN str(m[f])
        ELSE IF f \in BinaryFields(m)
        THEN data_encoder(m[f], 1, <<"0", "x">>)
        ELSE m[f]]

\* from_dict as it would be with every integer read into 64 bits
from_dict_uint64(d) ==
    [f \in DOMAIN d |->
        IF f \in NumericFields(d)
        THEN SubSeq(int(d[f], 1, Zero), 1,
                    IF Len(int(d[f], 1, Zero)) < 4
                    THEN Len(int(d[f], 1, Zero)) ELSE 4)
        ELSE IF f \in BinaryFields(d) THEN data_decoder(d[f], 3, << >>)
        ELSE d[f]]

\* cls.from_dict(data)
from_dict(d) ==
    [f \in DOMAIN d |->
        IF f \in NumericFields(d) THEN int(d[f], 1, Zero)
        ELSE IF f \in BinaryFields(d) THEN data_decoder(d[f], 3, << >>)
        ELSE d[f]]

\* the low byte of n
LowByte(n) == IF n = Zero THEN 0 ELSE n[1] % 256

\* message.sign(PRIVKEY, ADDRESS): the signature depends on the signed fields
sign(m) ==
    [f \in DOMAIN m \cup {"signature"} |->
        IF f = "signature"
        THEN <<(LowByte(m.nonce) + LowByte(m.identifier)
                   + LowByte(m.transferred_amount) + 1) % 256, 27>>
        ELSE m[f]]

\* x == y on messages
Message_eq(x, y) ==
    /\ DOMAIN x = DOMAIN y
    /\ \A f \in DOMAIN x : x[f] = y[f]

make_direct_transfer(identifier, nonce, transferred_amount) ==
    [type |-> "DirectTransfer", identifier |-> identifier, nonce |-> nonce,
     transferred_amount |-> transferred_amount,
     token |-> <<1, 171>>, channel |-> <<0, 16>>, recipient |-> <<255, 9>>,
     locksroot |-> <<0, 0>>]

make_mediated_transfer(amount, identifier, nonce, fee, transferred_amount) ==
    [type |-> "LockedTransfer", identifier |-> identifier, nonce |-> nonce,
     transferred_amount |-> transferred_amount, amount |-> amount, fee |-> fee,
     token |-> <<1, 171>>, channel |-> <<0, 16>>, recipient |-> <<255, 9>>,
     locksroot |-> <<0, 0>>]

make_refund_transfer(amount, identifier, nonce, transferred_amount) ==
    [type |-> "RefundTransfer", identifier |-> identifier, nonce |-> nonce,
     transferred_amount |-> transferred_amount, amount |-> amount, fee |-> Zero,
     token |-> <<1, 171>>, channel |-> <<0, 16>>, recipient |-> <<255, 9>>,
     locksroot |-> <<0, 0>>]

test_direct_transfer_min_max ==
    /\ pc = "make"
    /\ \E identifier \in {Zero, UINT64_MAX}, nonce \in {One, UINT64_MAX},
          transferred_amount \in {Zero, UINT256_MAX} :
          message' = make_direct_transfer(identifier, nonce, transferred_amount)
    /\ pc' = "sign"
    /\ UNCHANGED <<mapping, decoded, ctorVars, nodeVars, eqVars>>

test_mediated_transfer_min_max ==
    /\ pc = "make"
    /\ \E amount \in {Zero, UINT256_MAX}, identifier \in {Zero, UINT64_MAX},
          nonce \in {One, UINT64_MAX}, transferred_amount \in {Zero, UINT256_MAX},
          fee \in {Zero, UINT256_MAX} :
          message' = make_mediated_transfer(
                         amount, identifier, nonce, fee, transferred_amount)
    /\ pc' = "sign"
    /\ UNCHANGED <<mapping, decoded, ctorVars, nodeVars, eqVars>>

test_refund_transfer_min_max ==
    /\ pc = "make"
    /\ \E amount \in {Zero, UINT256_MAX}, identifier \in {Zero, UINT64_MAX},
          nonce \in {One, UINT64_MAX}, transferred_amount \in {Zero, UINT256_MAX} :
          message' = make_refund_transfer(
                         amount, identifier, nonce, transferred_amount)
    /\ pc' = "sign"
    /\ UNCHANGED <<mapping, decoded, ctorVars, nodeVars, eqVars>>

Sign ==
    /\ pc = "sign"
    /\ message' = sign(message)
    /\ pc' = "to_dict"
    /\ UNCHANGED <<mapping, decoded, ctorVars, nodeVars, eqVars>>

ToDict ==
    /\ pc = "to_dict"
    /\ mapping' = to_dict(message)
    /\ pc' = "from_dict"
    /\ UNCHANGED <<message, decoded, ctorVars, nodeVars, eqVars>>

FromDict ==
    /\ pc = "from_dict"
    /\ decoded' = from_dict(mapping)
    /\ pc' = "done"
    /\ UNCHANGED <<message, mapping, ctorVars, nodeVars, eqVars>>

NextCodec ==
    \/ test_direct_transfer_min_max
    \/ test_mediated_transfer_min_max
    \/ test_refund_transfer_min_max
    \/ Sign
    \/ ToDict
    \/ FromDict

----------------------------------------------------------------------------

Init ==
    /\ description = None
    /\ transfer = None
    /\ pair = None
    /\ raised = ""
    /\ block = 0
    /\ mediator = None
    /\ target = None
    /\ a = None
    /\ b = None
    /\ cmp = None
    /\ message = None
    /\ pc = "make"
    /\ mapping = None
    /\ decoded = None

Next ==
    \/ NewTransferDescription
    \/ ReceiveLockedTransfer
    \/ NewLockedTransferSigned
    \/ NewLockedTransferUnsigned
    \/ NewMediationPair

Spec == Init /\ [][Next]_vars

SpecMediator == Init /\ [][NextMediator]_vars

SpecTarget == Init /\ [][NextTarget]_vars

SpecEq == Init /\ [][NextEq]_vars

SpecCodec == Init /\ [][NextCodec]_vars

----------------------------------------------------------------------------
(* Properties *)

PairList == IF mediator = None THEN << >> ELSE mediator.transfers_pair

\* C1: every LockedTransferUnsignedState and LockedTransferSignedState that
\* exists has a balance_proof.locksroot not equal to EMPTY_MERKLE_ROOT.
C1_LocksrootNeverEmpty ==
    transfer # None =>
        ~BytesEq(transfer.balance_proof.locksroot, EMPTY_MERKLE_ROOT)

\* C2: every MediationPairState satisfies
\* payee_transfer.lock.expiration + reveal_timeout <= payer_transfer.lock.expiration.
C2_TimingSafety ==
    pair # None =>
        pair.payee_transfer.lock.expiration + reveal_timeout
            <= pair.payer_transfer.lock.expiration

\* C3: every MediationPairState satisfies
\* payee_transfer.lock.amount <= payer_transfer.lock.amount.
C3_NoValueCreation ==
    pair # None =>
        pair.payee_transfer.lock.amount <= pair.payer_transfer.lock.amount

\* C4: a signed DirectTransfer, LockedTransfer or RefundTransfer at the
\* boundary values equals from_dict of its to_dict.
C4_RoundTrip ==
    pc = "done" => Message_eq(decoded, message)

C4_Witness ==
    /\ pc = "done"
    /\ message.type = "LockedTransfer"
    /\ message.identifier = Zero
    /\ message.nonce = UINT64_MAX
    /\ message.amount = UINT256_MAX
    /\ message.fee = UINT256_MAX
    /\ decoded.amount = UINT256_MAX

\* C5: the secrethash of a TransferDescriptionWithSecretState is the keccak256
\* of its secret.
C5_SecrethashOfSecret ==
    description # None => description.secrethash = sha3(description.secret)

C5_Witness ==
    /\ description # None
    /\ description.secret = bytes(2, 12)
    /\ description.secrethash = sha3(bytes(2, 12))

\* the fields of the data model of each state type
DataModel(t) ==
    CASE t = "InitiatorPaymentState" -> {"initiator", "cancelled_channels"}
      [] t = "InitiatorTransferState" ->
             {"transfer_description", "channel_identifier", "transfer",
              "secretrequest", "revealsecret"}
      [] t = "MediatorTransferState" ->
             {"secrethash", "secret", "transfers_pair"}
      [] t = "TargetTransferState" -> {"route", "transfer", "secret", "state"}
      [] t \in {"LockedTransferUnsignedState", "LockedTransferSignedState"} ->
             {"identifier", "token", "balance_proof", "lock", "initiator",
              "target"}
      [] t = "TransferDescriptionWithSecretState" ->
             {"identifier", "amount", "registry", "token", "initiator",
              "target", "secret", "secrethash"}
      [] t = "MediationPairState" ->
             {"payer_transfer", "payee_address", "payee_transfer",
              "payer_state", "payee_state"}

SameValue(x, y) ==
    /\ x.type = y.type
    /\ \A f \in DataModel(x.type) : x[f] = y[f]

\* C6: a == b holds exactly when b has the type of a and every field of the
\* data model is equal in both, and a != b is the negation of a == b.
C6_StructuralEquality ==
    cmp # None =>
        /\ cmp.eq <=> SameValue(a, b)
        /\ cmp.ne <=> ~cmp.eq

C6_Witness ==
    /\ cmp # None
    /\ a.type = "MediationPairState"
    /\ b.type = "MediationPairState"
    /\ a.payer_state # b.payer_state
    /\ \A f \in DataModel(a.type) \ {"payer_state"} : a[f] = b[f]
    /\ ~cmp.eq
    /\ cmp.ne

\* C7: a newly constructed MediationPairState is in payer_pending and
\* payee_pending, and in every state payer_state is in valid_payer_states and
\* payee_state in valid_payee_states.
C7_PairStates ==
    /\ [](\A i \in DOMAIN PairList :
             /\ PairList[i].payer_state \in valid_payer_states
             /\ PairList[i].payee_state \in valid_payee_states)
    /\ [][Len(PairList') > Len(PairList) =>
             /\ PairList'[Len(PairList')].payer_state = "payer_pending"
             /\ PairList'[Len(PairList')].payee_state = "payee_pending"]_vars

C7_Witness ==
    /\ Len(PairList) = 2
    /\ PairList[1].payer_state = "payer_balance_proof"
    /\ PairList[1].payee_state = "payee_balance_proof"
    /\ PairList[2].payer_state = "payer_pending"
    /\ PairList[2].payee_state = "payee_pending"

PayeeStateIs(i, state) ==
    /\ i \in DOMAIN PairList
    /\ PairList[i].payee_state = state

\* C8: once the payee_state of a pair is payee_expired, it never becomes
\* payee_contract_withdraw in any later state.
C8_NoWithdrawAfterExpired ==
    \A i \in 1..MaxExpiration :
        [](PayeeStateIs(i, "payee_expired")
              => [](~PayeeStateIs(i, "payee_contract_withdraw")))

C8_Witness ==
    /\ PayeeStateIs(1, "payee_expired")
    /\ PayeeStateIs(2, "payee_contract_withdraw")
    /\ mediator.secret # None

C10_TargetStates ==
    /\ [](target # None => target.state \in valid_states)
    /\ [][target = None /\ target' # None =>
             /\ target'.state = "secret_request"
             /\ target'.secret = None]_vars

C10_Witness ==
    /\ target # None
    /\ target.state = "expired"
    /\ target.secret # None

====
